---- MODULE Spec2Model ----
(***************************************************************************)
(* The job pipeline orchestrator of backend/app.py and                     *)
(* backend/physics_pipeline.py: the in-memory job map, the job.json        *)
(* snapshots, the request handlers (upload, analyze, update_properties,    *)
(* generate), and the single-worker executor that runs the generation     *)
(* tasks.                                                                  *)
(*                                                                         *)
(* Granularity.  A step of a request thread or of the worker thread runs   *)
(* from one blocking call to the next (save_job's file write, the          *)
(* analyzer's HTTP call, the rembg / TripoSR / Blender calls): a handful   *)
(* of dictionary assignments followed by save_job is one step.  The        *)
(* external tools are the environment: each call draws its outcome.        *)
(*                                                                         *)
(* Numbers of a PropertyBag are kept in tenths (mass 1.0 is 10).           *)
(***************************************************************************)
EXTENDS Integers, Sequences, FiniteSets, TLC

VARIABLES
    jobs,      \* app.py `jobs`: job id -> job record (DOMAIN = the created jobs)
    disk,      \* the job.json snapshot of each job, as save_job last wrote it
    queue,     \* the executor's work queue: tasks submitted and not yet started
    running,   \* the worker thread(s): task id -> the frame of background()
    nsub,      \* number of tasks submitted to the executor so far
    anz,       \* request threads inside analyze(): request id -> frame
    nreq,      \* number of requests accepted so far
    resp       \* the response of the request handler that returned last

vars == <<jobs, disk, queue, running, nsub, anz, nreq, resp>>

\* ---------------------------------------------------------------- bounds

\* Requests accepted in a run; every job is created by one of them.
MaxReqs == 4

JobIds == 1..MaxReqs

\* --------------------------------------------------------------- values

None == "None"          \* Python None in a string-valued field
NoProps == <<>>         \* Python None (or {}) as a value of the properties map

ObjectKeys == <<"objectA", "objectB">>
BagFields == {"mass", "bounciness", "friction", "facing"}

stage(status, message) == [status |-> status, message |-> message]

\* ------------------------------------------------------- error messages

MsgMissingProps == "Physics properties missing for one or both objects."
MsgImageNotFound == "image not found"
MsgOriginalMissing == "original image missing"
MsgRembgFailed == "Background removal failed"
MsgTripoFailed == "TripoSR failed"
MsgMeshNotFound == "Mesh not found"
MsgBlenderFailed == "Blender render failed"
MsgRenderMissing == "Expected render output but file not found."

\* ------------------------------------------------- ObjectProperties

\* float() on the JSON scalars the model uses; "heavy" is not a number.
FloatOf == ("1.0" :> 10) @@ ("0.5" :> 5) @@ ("2.3" :> 23) @@ ("0.3" :> 3) @@ ("0.7" :> 7)

IsFloat(s) == s \in DOMAIN FloatOf

\* data.get(key, default) followed by float(): the default is already a float.
GetFloat(data, key, default) ==
    IF key \in DOMAIN data THEN FloatOf[data[key]] ELSE default

\* ObjectProperties.from_raw raises (ValueError) when a numeric field is present
\* and float() rejects it.
FromRawRaises(data) ==
    \E k \in (DOMAIN data) \cap {"mass", "bounciness", "friction"} : ~IsFloat(data[k])

from_raw(data) ==
    [mass       |-> GetFloat(data, "mass", 10),
     bounciness |-> GetFloat(data, "bounciness", 5),
     friction   |-> GetFloat(data, "friction", 5),
     facing     |-> IF "facing" \in DOMAIN data THEN data["facing"] ELSE "front"]

\* ------------------------------------------------------------ Analyzer

\* What the Gemini call can do: answer with a JSON object, with a JSON object
\* whose mass is not a number, with text that is not JSON, or fail (HTTP error,
\* timeout).
AnalyzerOutcomes == {"json_full", "json_badvalue", "nonjson", "raise"}

RawFull == [mass |-> "2.3", bounciness |-> "0.3", friction |-> "0.7", facing |-> "left"]
RawBadValue == [mass |-> "heavy", bounciness |-> "0.3", friction |-> "0.7", facing |-> "left"]
RawFallback == [mass |-> "1.0", bounciness |-> "0.5", friction |-> "0.5", facing |-> "front"]

\* The except branch of _get_physics_gemini_rest is taken: the request failed,
\* or json.loads rejected the text.
Fallback(outcome) == outcome \in {"nonjson", "raise"}

\* How an analyzer call ended, as far as the code can tell.
Answer(outcome) ==
    CASE Fallback(outcome)         -> "fallback"
      [] outcome = "json_badvalue" -> "badvalue"
      [] OTHER                     -> "json"

\* _get_physics_gemini_rest: whatever json.loads returns, or the fallback
\* defaults when anything inside the try block raised.
_get_physics_gemini_rest(outcome) ==
    CASE Fallback(outcome)         -> RawFallback
      [] outcome = "json_badvalue" -> RawBadValue
      [] OTHER                     -> RawFull

\* analyze_objects for the entities from index `idx` on, with the properties
\* collected so far in `results` and the analyzer calls made in `calls`.
\* exists[k] is whether the original image of entity k is on disk, out[k] what
\* the analyzer does for it.  The result is what line 147 of app.py gets:
\* the properties, a PipelineError, or another exception.
RECURSIVE analyze_objects(_, _, _, _, _)
analyze_objects(idx, exists, out, results, calls) ==
    IF idx > Len(ObjectKeys)
    THEN [kind |-> "ok", props |-> results, msg |-> None, calls |-> calls]
    ELSE LET key == ObjectKeys[idx]
             raw == _get_physics_gemini_rest(out[key])
             log == Append(calls, [tool |-> "analyzer", ent |-> key,
                                   out |-> Answer(out[key])])
         IN  IF ~exists[key]
             THEN [kind |-> "PipelineError", props |-> results,
                   msg |-> MsgImageNotFound, calls |-> calls]
             ELSE IF FromRawRaises(raw)
             THEN [kind |-> "ValueError", props |-> results, msg |-> None, calls |-> log]
             ELSE analyze_objects(idx + 1, exists, out,
                                  results @@ (key :> from_raw(raw)), log)

\* ------------------------------------------------- the properties map

UserBag == [mass |-> 23, bounciness |-> 3, friction |-> 7, facing |-> "left"]
BadBag == [mass |-> 23]

\* The maps update_properties is given (any JSON object is accepted): both
\* bags, a null entry, a bag under a key that is no entity, and one populated
\* entry that lacks fields.
PropertyInputs ==
    { [objectA |-> UserBag, objectB |-> UserBag],
      [objectA |-> UserBag, objectB |-> NoProps],
      [objectA |-> UserBag, objectC |-> UserBag],
      [objectA |-> BadBag,  objectB |-> NoProps] }

\* `if value` in the comprehension of background(): None and {} are dropped.
Populated(properties) == {k \in DOMAIN properties : properties[k] # NoProps}

\* ObjectProperties(**value) raises TypeError unless value has exactly the four
\* fields of the dataclass.
CtorRaises(value) == DOMAIN value # BagFields

BuildPropsRaises(properties) ==
    \E k \in Populated(properties) : CtorRaises(properties[k])

BuildProps(properties) == [k \in Populated(properties) |-> properties[k]]

\* ------------------------------------------------------------ the job

\* A record whose upload stage starts pending like the others.
NewJobMut(id) ==
    [id         |-> id,
     status     |-> "uploaded",
     progress   |-> 10,
     stages     |-> [upload     |-> stage("pending", None),
                     analysis   |-> stage("pending", None),
                     generation |-> stage("pending", None),
                     render     |-> stage("pending", None)],
     files      |-> [objectA |-> [clean |-> None, model |-> None],
                     objectB |-> [clean |-> None, model |-> None]],
     properties |-> [objectA |-> NoProps, objectB |-> NoProps],
     video_path |-> None,
     error      |-> None]

\* create_job's record (lines 70-88).
NewJob(id) ==
    [id         |-> id,
     status     |-> "uploaded",
     progress   |-> 10,
     stages     |-> [upload     |-> stage("completed", "Images uploaded"),
                     analysis   |-> stage("pending", None),
                     generation |-> stage("pending", None),
                     render     |-> stage("pending", None)],
     files      |-> [objectA |-> [clean |-> None, model |-> None],
                     objectB |-> [clean |-> None, model |-> None]],
     properties |-> [objectA |-> NoProps, objectB |-> NoProps],
     video_path |-> None,
     error      |-> None]

\* serialize_job: the record without dir and files, plus hasVideo.
serialize_job(job) ==
    [id         |-> job.id,
     status     |-> job.status,
     progress   |-> job.progress,
     stages     |-> job.stages,
     properties |-> job.properties,
     video_path |-> job.video_path,
     error      |-> job.error,
     hasVideo   |-> job.video_path # None]

\* What a handler answered, with the analyzer calls it made on the way.
Response(id, op, j, code, message, body) ==
    [id |-> id, op |-> op, job |-> j, code |-> code, message |-> message, body |-> body,
     calls |-> <<>>]

NoBody == <<>>

\* One record shared by every job.
StoreMut(m, j, job) == [k \in (DOMAIN m) \cup {j} |-> job]

\* jobs[job_id] = job, and save_job(job): the snapshot is the whole record.
Store(m, j, job) == IF j \in DOMAIN m THEN [m EXCEPT ![j] = job] ELSE m @@ (j :> job)

Remove(f, i) == [k \in (DOMAIN f) \ {i} |-> f[k]]

\* ------------------------------------------------------- the executor

\* A pool of two worker threads.
MaxWorkersMut == 1 + 1

\* ThreadPoolExecutor(max_workers=1).
MaxWorkers == 1

\* A work queue that hands out the newest item first.
PickTaskMut(q) == Len(q)

\* The work item a free worker takes: ThreadPoolExecutor's queue is FIFO.
PickTask(q) == 1

\* A free worker thread takes the next work item and enters background().
WorkerStart ==
    /\ queue # <<>>
    /\ Cardinality(DOMAIN running) < MaxWorkers
    /\ LET n == PickTask(queue)
           item == queue[n]
       IN  /\ queue' = [i \in 1..(Len(queue) - 1) |->
                           IF i < n THEN queue[i] ELSE queue[i + 1]]
           /\ running' = running @@
                 (item.id :> [job |-> item.job, pc |-> "begin", ent |-> 0,
                              props |-> NoProps, calls |-> <<>>, exc |-> None])
    /\ UNCHANGED <<jobs, disk, nsub, anz, nreq, resp>>

\* executor.submit(background) for job_id.
Submit(q, n, j) == Append(q, [id |-> n + 1, job |-> j])

\* ------------------------------------------------------------ Init

Init ==
    /\ jobs = <<>>
    /\ disk = <<>>
    /\ queue = <<>>
    /\ running = <<>>
    /\ nsub = 0
    /\ anz = <<>>
    /\ nreq = 0
    /\ resp = Response(0, "none", 0, 0, None, NoBody)

\* -------------------------------------------------- request handlers

\* The job ids requests are addressed to: the created jobs and one id that
\* names no job.
Targets == {j \in JobIds : j <= Cardinality(DOMAIN jobs) + 1}

\* A 404 that schedules a generation task all the same.
NotFoundMut(op, j) ==
    /\ resp' = Response(nreq + 1, op, j, 404, "Job not found", NoBody)
    /\ queue' = Submit(queue, nsub, j)
    /\ nsub' = nsub + 1
    /\ UNCHANGED <<jobs, disk, running, anz>>

NotFound(op, j) ==
    /\ resp' = Response(nreq + 1, op, j, 404, "Job not found", NoBody)
    /\ UNCHANGED <<jobs, disk, queue, running, nsub, anz>>

\* POST /api/upload: create_job.
Upload ==
    /\ nreq < MaxReqs
    /\ nreq' = nreq + 1
    /\ LET id == Cardinality(DOMAIN jobs) + 1
           job == NewJob(id)
       IN  /\ jobs' = Store(jobs, id, job)
           /\ disk' = Store(disk, id, job)
           /\ resp' = Response(nreq + 1, "upload", id, 200, None, serialize_job(job))
    /\ UNCHANGED <<queue, running, nsub, anz>>

\* POST /api/analyze, lines 128-140: the job is marked analyzing and saved.
AnalyzeBegin(j) ==
    /\ j \in Targets
    /\ nreq < MaxReqs
    /\ nreq' = nreq + 1
    /\ IF j \notin DOMAIN jobs
       THEN NotFound("analyze", j)
       ELSE LET job == [jobs[j] EXCEPT
                           !.status = "analyzing",
                           !.stages.analysis = stage("running", "Analyzing physics properties")]
            IN  /\ jobs' = Store(jobs, j, job)
                /\ disk' = Store(disk, j, job)
                /\ anz' = anz @@ ((nreq + 1) :> [job |-> j])
                /\ UNCHANGED <<queue, running, nsub, resp>>

\* The results analyze_objects can hand back, over what the images and the
\* analyzer can do.
AnalyzeResults ==
    { analyze_objects(1, exists, out, <<>>, <<>>) :
        exists \in [{"objectA", "objectB"} -> BOOLEAN],
        out \in [{"objectA", "objectB"} -> AnalyzerOutcomes] }

\* Lines 142-162: pipeline.analyze_objects runs (no progress callback is
\* passed, so it touches nothing of the job); its result is stored, or its
\* PipelineError is recorded; any other exception leaves the handler (Flask
\* answers 500) with the job as it is.
AnalyzeEnd(i) ==
    /\ i \in DOMAIN anz
    /\ \E res \in AnalyzeResults :
          LET j == anz[i].job
              done == [jobs[j] EXCEPT
                          !.properties = res.props,
                          !.status = "analysis_complete",
                          !.progress = 50,
                          !.stages.analysis = stage("completed", "AI properties detected")]
              failed == [jobs[j] EXCEPT
                          !.status = "error",
                          !.error = res.msg,
                          !.stages.analysis = stage("failed", res.msg)]
              answer(code, message, body) ==
                  [Response(i, "analyze", j, code, message, body) EXCEPT !.calls = res.calls]
          IN  CASE res.kind = "ok" ->
                     /\ jobs' = Store(jobs, j, done)
                     /\ disk' = Store(disk, j, done)
                     /\ resp' = answer(200, None, serialize_job(done))
                [] res.kind = "PipelineError" ->
                     /\ jobs' = Store(jobs, j, failed)
                     /\ disk' = Store(disk, j, failed)
                     /\ resp' = answer(500, res.msg, NoBody)
                [] OTHER ->
                     /\ resp' = answer(500, "Internal Server Error", NoBody)
                     /\ UNCHANGED <<jobs, disk>>
    /\ anz' = Remove(anz, i)
    /\ UNCHANGED <<queue, running, nsub, nreq>>

\* A handler that merges the supplied map into the job's map, key by key.
UpdatePropertiesMut(j, properties) ==
    /\ j \in Targets
    /\ nreq < MaxReqs
    /\ nreq' = nreq + 1
    /\ IF j \notin DOMAIN jobs
       THEN NotFound("properties", j)
       ELSE LET job == [jobs[j] EXCEPT !.properties = properties @@ @]
            IN  /\ jobs' = Store(jobs, j, job)
                /\ disk' = Store(disk, j, job)
                /\ resp' = Response(nreq + 1, "properties", j, 200, None, serialize_job(job))
                /\ UNCHANGED <<queue, running, nsub, anz>>

\* POST /api/properties.
UpdateProperties(j, properties) ==
    /\ j \in Targets
    /\ nreq < MaxReqs
    /\ nreq' = nreq + 1
    /\ IF j \notin DOMAIN jobs
       THEN NotFound("properties", j)
       ELSE LET job == [jobs[j] EXCEPT !.properties = properties]
            IN  /\ jobs' = Store(jobs, j, job)
                /\ disk' = Store(disk, j, job)
                /\ resp' = Response(nreq + 1, "properties", j, 200, None, serialize_job(job))
                /\ UNCHANGED <<queue, running, nsub, anz>>

\* The statuses for which generate() answers without scheduling (line 249).
InFlight == {"generating", "rendering"}

\* POST /api/generate.
Generate(j) ==
    /\ j \in Targets
    /\ nreq < MaxReqs
    /\ nreq' = nreq + 1
    /\ IF j \notin DOMAIN jobs
       THEN NotFound("generate", j)
       ELSE IF jobs[j].status \in InFlight
       THEN /\ resp' = Response(nreq + 1, "generate", j, 200, None, serialize_job(jobs[j]))
            /\ UNCHANGED <<jobs, disk, queue, running, nsub, anz>>
       ELSE /\ queue' = Submit(queue, nsub, j)
            /\ nsub' = nsub + 1
            /\ resp' = Response(nreq + 1, "generate", j, 200, "Generation started",
                                serialize_job(jobs[j]))
            /\ UNCHANGED <<jobs, disk, running, anz>>

\* GET /api/status.  A GET request changes nothing but its own response, and
\* is not numbered among the requests.
Status(j) ==
    /\ j \in Targets
    /\ resp' = IF j \notin DOMAIN jobs
               THEN Response(0, "status", j, 404, "Job not found", NoBody)
               ELSE Response(0, "status", j, 200, None, serialize_job(jobs[j]))
    /\ UNCHANGED <<jobs, disk, queue, running, nsub, anz, nreq>>

\* GET /api/video: the file is sent when video_path is set and the file at
\* that path is there.
Video(j) ==
    /\ j \in Targets
    /\ \E exists \in BOOLEAN :
          resp' = IF j \notin DOMAIN jobs
                  THEN Response(0, "video", j, 404, "Job not found", NoBody)
                  ELSE IF jobs[j].video_path = None \/ ~exists
                  THEN Response(0, "video", j, 404, "Video not ready", NoBody)
                  ELSE Response(0, "video", j, 200, None, NoBody)
    /\ UNCHANGED <<jobs, disk, queue, running, nsub, anz, nreq>>

\* ------------------------------------------------ the generation task

CleaningMsg == [objectA |-> "Cleaning objectA", objectB |-> "Cleaning objectB"]
MeshMsg == [objectA |-> "Generating mesh for objectA", objectB |-> "Generating mesh for objectB"]

\* The percent values generate_collision emits for the entity at `index`.
CleanPercent(index) == 55 + (index * 5)
MeshPercent(index) == 65 + (index * 10)

\* background.progress (lines 190-194), before its save_job.
progress(job, stage_key, message, percent) ==
    IF stage_key \in DOMAIN job.stages
    THEN [job EXCEPT !.progress = percent, !.stages[stage_key] = stage("running", message)]
    ELSE [job EXCEPT !.progress = percent]

\* An except block that leaves the render stage as it is.
FailGenerationMut(job, msg) ==
    [job EXCEPT !.status = "error",
                !.error = msg,
                !.stages.generation = stage("failed", msg)]

\* The except PipelineError block of background() (lines 227-231).
FailGeneration(job, msg) ==
    [job EXCEPT !.status = "error",
                !.error = msg,
                !.stages.generation = stage("failed", msg),
                !.stages.render = stage("failed", msg)]

\* Lines 221-225.
CompleteGeneration(job) ==
    [job EXCEPT !.video_path = "output_collision.mp4",
                !.status = "complete",
                !.progress = 100,
                !.stages.generation = stage("completed", "3D meshes ready"),
                !.stages.render = stage("completed", "Render finished")]

\* A background removal whose failure is swallowed.
CleanBackgroundMut(out) == None

\* _clean_background: any exception of rembg becomes a PipelineError.
_clean_background(out) == IF out = "ok" THEN None ELSE MsgRembgFailed

\* _generate_3d_model without its test that mesh.obj exists.
GenerateModelMut(out) ==
    CASE out = "fail" -> MsgTripoFailed
      [] OTHER        -> None

\* _generate_3d_model: a failed process, or a missing mesh.obj after a process
\* that reported success, is a PipelineError.
_generate_3d_model(out) ==
    CASE out = "fail"    -> MsgTripoFailed
      [] out = "missing" -> MsgMeshNotFound
      [] OTHER           -> None

\* _run_blender once its arguments are built.
_run_blender(out) ==
    CASE out = "fail"    -> MsgBlenderFailed
      [] out = "missing" -> MsgRenderMissing
      [] OTHER           -> None

Frame(t) == running[t]

\* The task ends: its frame stays until the worker thread returns from it.
TaskEnds(t, fr, exc) == running' = [running EXCEPT ![t] = [fr EXCEPT !.pc = "done", !.exc = exc]]

\* A PipelineError reaches the except block: the job is failed and saved.
TaskFails(t, fr, job, msg) ==
    /\ jobs' = Store(jobs, fr.job, FailGeneration(job, msg))
    /\ disk' = Store(disk, fr.job, FailGeneration(job, msg))
    /\ TaskEnds(t, fr, None)

\* on_progress(...) and the task goes on at `pc`.
TaskEmits(t, fr, job, stage_key, message, percent, pc) ==
    /\ jobs' = Store(jobs, fr.job, progress(job, stage_key, message, percent))
    /\ disk' = Store(disk, fr.job, progress(job, stage_key, message, percent))
    /\ running' = [running EXCEPT ![t] = [fr EXCEPT !.pc = pc]]

\* The head of generate_collision's loop for the entity at `index` (lines
\* 100-111): the original image must exist, then "Cleaning ..." is emitted.
EnterEntity(t, fr, job, index) ==
    \E exists \in BOOLEAN :
        IF ~exists
        THEN TaskFails(t, fr, job, MsgOriginalMissing)
        ELSE TaskEmits(t, [fr EXCEPT !.ent = index], job, "generation",
                       CleaningMsg[ObjectKeys[index + 1]], CleanPercent(index), "clean")

\* Lines 185-199: the job is marked generating and saved.
GenBegin(t) ==
    /\ t \in DOMAIN running
    /\ Frame(t).pc = "begin"
    /\ IF Frame(t).job \notin DOMAIN jobs
       THEN /\ TaskEnds(t, Frame(t), None)
            /\ UNCHANGED <<jobs, disk>>
       ELSE LET j == Frame(t).job
                job == [jobs[j] EXCEPT
                           !.status = "generating",
                           !.stages.generation = stage("running", "Generating 3D meshes"),
                           !.stages.render = stage("pending", None)]
            IN  /\ jobs' = Store(jobs, j, job)
                /\ disk' = Store(disk, j, job)
                /\ running' = [running EXCEPT ![t].pc = "check"]
    /\ UNCHANGED <<queue, nsub, anz, nreq, resp>>

\* Lines 201-219 up to the first progress callback: the properties are read.
GenCheck(t) ==
    /\ t \in DOMAIN running
    /\ Frame(t).pc = "check"
    /\ LET job == jobs[Frame(t).job]
       IN  IF BuildPropsRaises(job.properties)
           THEN /\ TaskEnds(t, Frame(t), "TypeError")
                /\ UNCHANGED <<jobs, disk>>
           ELSE LET fr == [Frame(t) EXCEPT !.props = BuildProps(job.properties)]
                IN  IF Cardinality(DOMAIN fr.props) # 2
                    THEN TaskFails(t, fr, job, MsgMissingProps)
                    ELSE EnterEntity(t, fr, job, 0)
    /\ UNCHANGED <<queue, nsub, anz, nreq, resp>>

\* Lines 112-115: rembg runs; then "Generating mesh ..." is emitted.
GenClean(t) ==
    /\ t \in DOMAIN running
    /\ Frame(t).pc = "clean"
    /\ \E out \in {"ok", "fail"} :
          LET key == ObjectKeys[Frame(t).ent + 1]
              fr == [Frame(t) EXCEPT !.calls = Append(@, [tool |-> "clean", ent |-> key, out |-> out])]
              job == jobs[fr.job]
          IN  IF _clean_background(out) # None
              THEN TaskFails(t, fr, job, _clean_background(out))
              ELSE TaskEmits(t, fr, [job EXCEPT !.files[key].clean = "clean.png"],
                             "generation", MeshMsg[key], MeshPercent(fr.ent), "mesh")
    /\ UNCHANGED <<queue, nsub, anz, nreq, resp>>

\* Lines 116-120: TripoSR runs; then the next entity, or the render, begins.
GenMesh(t) ==
    /\ t \in DOMAIN running
    /\ Frame(t).pc = "mesh"
    /\ \E out \in {"ok", "fail", "missing"} :
          LET key == ObjectKeys[Frame(t).ent + 1]
              fr == [Frame(t) EXCEPT !.calls = Append(@, [tool |-> "mesh", ent |-> key, out |-> out])]
              job == jobs[fr.job]
              meshed == [job EXCEPT !.files[key].model = "mesh.obj"]
          IN  IF _generate_3d_model(out) # None
              THEN TaskFails(t, fr, job, _generate_3d_model(out))
              ELSE IF fr.ent + 1 < Len(ObjectKeys)
              THEN EnterEntity(t, fr, meshed, fr.ent + 1)
              ELSE TaskEmits(t, fr, meshed, "render", "Running Blender simulation", 90, "render")
    /\ UNCHANGED <<queue, nsub, anz, nreq, resp>>

\* Lines 122-123: _run_blender reads both entities' properties (a KeyError
\* when one is not in props), runs Blender, and "Render complete" is emitted.
GenRender(t) ==
    /\ t \in DOMAIN running
    /\ Frame(t).pc = "render"
    /\ IF ~({"objectA", "objectB"} \subseteq DOMAIN Frame(t).props)
       THEN /\ TaskEnds(t, Frame(t), "KeyError")
            /\ UNCHANGED <<jobs, disk>>
       ELSE \E out \in {"ok", "fail", "missing"} :
               LET fr == [Frame(t) EXCEPT
                             !.calls = Append(@, [tool |-> "render", ent |-> "both", out |-> out])]
                   job == jobs[fr.job]
               IN  IF _run_blender(out) # None
                   THEN TaskFails(t, fr, job, _run_blender(out))
                   ELSE TaskEmits(t, fr, job, "render", "Render complete", 100, "finish")
    /\ UNCHANGED <<queue, nsub, anz, nreq, resp>>

\* Lines 221-226: the job is marked complete and saved.
GenFinish(t) ==
    /\ t \in DOMAIN running
    /\ Frame(t).pc = "finish"
    /\ jobs' = Store(jobs, Frame(t).job, CompleteGeneration(jobs[Frame(t).job]))
    /\ disk' = Store(disk, Frame(t).job, CompleteGeneration(jobs[Frame(t).job]))
    /\ TaskEnds(t, Frame(t), None)
    /\ UNCHANGED <<queue, nsub, anz, nreq, resp>>

\* A worker thread that an exception leaving background() would end.
TaskReturnMut(t) ==
    /\ t \in DOMAIN running
    /\ Frame(t).pc = "done"
    /\ Frame(t).exc = None
    /\ running' = Remove(running, t)
    /\ UNCHANGED <<jobs, disk, queue, nsub, anz, nreq, resp>>

\* background() has returned or raised: the worker thread is free again.
TaskReturn(t) ==
    /\ t \in DOMAIN running
    /\ Frame(t).pc = "done"
    /\ running' = Remove(running, t)
    /\ UNCHANGED <<jobs, disk, queue, nsub, anz, nreq, resp>>

\* ------------------------------------------------------------ Next

TaskIds == 1..MaxReqs
ReqIds == 1..MaxReqs

Next ==
    \/ Upload
    \/ \E j \in JobIds : AnalyzeBegin(j)
    \/ \E i \in ReqIds : AnalyzeEnd(i)
    \/ \E j \in JobIds, p \in PropertyInputs : UpdateProperties(j, p)
    \/ \E j \in JobIds : Generate(j)
    \/ WorkerStart
    \/ \E t \in TaskIds : GenBegin(t)
    \/ \E t \in TaskIds : GenCheck(t)
    \/ \E t \in TaskIds : GenClean(t)
    \/ \E t \in TaskIds : GenMesh(t)
    \/ \E t \in TaskIds : GenRender(t)
    \/ \E t \in TaskIds : GenFinish(t)
    \/ \E t \in TaskIds : TaskReturn(t)

Spec == Init /\ [][Next]_vars

\* A step of the executor's worker thread.
WorkerStep ==
    \/ WorkerStart
    \/ \E t \in TaskIds :
          \/ GenBegin(t)
          \/ GenCheck(t)
          \/ GenClean(t)
          \/ GenMesh(t)
          \/ GenRender(t)
          \/ GenFinish(t)
          \/ TaskReturn(t)

\* The executor and the handlers that feed it.  analyze() is left out: it
\* submits nothing, and no step of a task waits for it.
FairNext ==
    \/ Upload
    \/ \E j \in JobIds, p \in PropertyInputs : UpdateProperties(j, p)
    \/ \E j \in JobIds : Generate(j)
    \/ WorkerStep

\* The worker thread is scheduled again and again, and every call of an
\* external tool returns.
FairSpec == Init /\ [][FairNext]_vars /\ WF_vars(WorkerStep)

\* The same system with its two GET handlers: clients may poll at any moment.
PollNext ==
    \/ Next
    \/ \E j \in JobIds : Status(j)
    \/ \E j \in JobIds : Video(j)

PollSpec == Init /\ [][PollNext]_vars

\* ------------------------------------------------ assignment by assignment

\* No lock is held while a handler or the task assigns to a job record, so
\* threads can be switched between any two assignments.  FineSpec follows
\* the updates that write `status` assignment by assignment: a step of a
\* thread inside one of them is one assignment, or the save_job that ends
\* it.  The steps of the task between its first and its last update stay as
\* in Spec, and the runs are narrowed to the bounds below, so every behaviour
\* of FineSpec is a behaviour of the program, and not the other way round:
\* FineSpec can refute a claim and cannot confirm one.

FineJobs == 1        \* jobs created
FineAnalyses == 1    \* analyze() requests in progress at a time
FineTasks == 1       \* generation tasks submitted

\* job[f] = v, or job["stages"][f] = v when f names a stage.
W(f, v) == [f |-> f, v |-> v]

Assign(job, w) ==
    IF w.f \in DOMAIN job.stages
    THEN [job EXCEPT !.stages[w.f] = w.v]
    ELSE [job EXCEPT ![w.f] = w.v]

Field(job, f) == IF f \in DOMAIN job.stages THEN job.stages[f] ELSE job[f]

\* The assignments that take a record to `new`, field by field in `order`.
Writes(order, new) == [n \in 1..Len(order) |-> W(order[n], Field(new, order[n]))]

AnalyzeBeginWrites ==
    << W("status", "analyzing"),
       W("analysis", stage("running", "Analyzing physics properties")) >>

AnalyzeDoneWrites(props) ==
    << W("properties", props),
       W("status", "analysis_complete"),
       W("progress", 50),
       W("analysis", stage("completed", "AI properties detected")) >>

AnalyzeFailWrites(msg) ==
    << W("status", "error"), W("error", msg), W("analysis", stage("failed", msg)) >>

BeginWrites ==
    << W("status", "generating"),
       W("generation", stage("running", "Generating 3D meshes")),
       W("render", stage("pending", None)) >>

FinishWrites(job) ==
    Writes(<<"video_path", "status", "progress", "generation", "render">>,
           CompleteGeneration(job))

\* A thread with `writes` to make makes the first now; after the last it
\* calls save_job and goes on at `next`.
Writing(fr, writes, next) ==
    [todo |-> Tail(writes), next |-> next] @@ [fr EXCEPT !.pc = "write"]

TaskWrites(t, fr, writes, next) ==
    /\ jobs' = Store(jobs, fr.job, Assign(jobs[fr.job], Head(writes)))
    /\ running' = [running EXCEPT ![t] = Writing(fr, writes, next)]
    /\ UNCHANGED disk

\* The next assignment of the task's update.
TaskWrite(t) ==
    /\ t \in DOMAIN running
    /\ Frame(t).pc = "write"
    /\ Frame(t).todo # <<>>
    /\ jobs' = Store(jobs, Frame(t).job, Assign(jobs[Frame(t).job], Head(Frame(t).todo)))
    /\ running' = [running EXCEPT ![t].todo = Tail(@)]
    /\ UNCHANGED <<disk, queue, nsub, anz, nreq, resp>>

\* save_job after the last assignment: the record as it is now is written.
TaskSave(t) ==
    /\ t \in DOMAIN running
    /\ Frame(t).pc = "write"
    /\ Frame(t).todo = <<>>
    /\ disk' = Store(disk, Frame(t).job, jobs[Frame(t).job])
    /\ running' = [running EXCEPT ![t].pc = Frame(t).next]
    /\ UNCHANGED <<jobs, queue, nsub, anz, nreq, resp>>

\* Lines 185-198: background() begins its first update.
FineBegin(t) ==
    /\ t \in DOMAIN running
    /\ Frame(t).pc = "begin"
    /\ TaskWrites(t, Frame(t), BeginWrites, "check")
    /\ UNCHANGED <<queue, nsub, anz, nreq, resp>>

\* Lines 221-226: the last update of background() begins.
FineFinish(t) ==
    /\ t \in DOMAIN running
    /\ Frame(t).pc = "finish"
    /\ TaskWrites(t, Frame(t), FinishWrites(jobs[Frame(t).job]), "done")
    /\ UNCHANGED <<queue, nsub, anz, nreq, resp>>

\* POST /api/analyze, lines 128-139: the first update begins.
FineAnalyzeBegin(j) ==
    /\ j \in Targets
    /\ Cardinality(DOMAIN anz) < FineAnalyses
    /\ nreq < MaxReqs
    /\ nreq' = nreq + 1
    /\ IF j \notin DOMAIN jobs
       THEN NotFound("analyze", j)
       ELSE /\ jobs' = Store(jobs, j, Assign(jobs[j], Head(AnalyzeBeginWrites)))
            /\ anz' = anz @@ ((nreq + 1) :>
                         Writing([job |-> j, pc |-> "begin", code |-> 0, message |-> None],
                                 AnalyzeBeginWrites, "call"))
            /\ UNCHANGED <<disk, queue, running, nsub, resp>>

\* The next assignment of the request thread's update.
AnalyzeWrite(i) ==
    /\ i \in DOMAIN anz
    /\ anz[i].pc = "write"
    /\ anz[i].todo # <<>>
    /\ jobs' = Store(jobs, anz[i].job, Assign(jobs[anz[i].job], Head(anz[i].todo)))
    /\ anz' = [anz EXCEPT ![i].todo = Tail(@)]
    /\ UNCHANGED <<disk, queue, running, nsub, nreq, resp>>

\* save_job after the last assignment; after the handler's last update the
\* response is built from the record as it is now.
AnalyzeSave(i) ==
    /\ i \in DOMAIN anz
    /\ anz[i].pc = "write"
    /\ anz[i].todo = <<>>
    /\ disk' = Store(disk, anz[i].job, jobs[anz[i].job])
    /\ IF anz[i].next = "call"
       THEN /\ anz' = [anz EXCEPT ![i].pc = "call"]
            /\ UNCHANGED resp
       ELSE /\ anz' = Remove(anz, i)
            /\ resp' = Response(i, "analyze", anz[i].job, anz[i].code, anz[i].message,
                                IF anz[i].code = 200
                                THEN serialize_job(jobs[anz[i].job]) ELSE NoBody)
    /\ UNCHANGED <<jobs, queue, running, nsub, nreq>>

\* The results of analyze_objects when the analyzer answers with JSON.
FineAnalyzeResults ==
    { analyze_objects(1, exists, out, <<>>, <<>>) :
        exists \in [{"objectA", "objectB"} -> BOOLEAN],
        out \in [{"objectA", "objectB"} -> {"json_full", "json_badvalue"}] }

\* Lines 142-160: analyze_objects returns or raises, and the update that
\* records it begins.
FineAnalyzeCall(i) ==
    /\ i \in DOMAIN anz
    /\ anz[i].pc = "call"
    /\ \E res \in FineAnalyzeResults :
          LET j == anz[i].job
              begins(writes, code, message) ==
                  /\ jobs' = Store(jobs, j, Assign(jobs[j], Head(writes)))
                  /\ anz' = [anz EXCEPT ![i] =
                                Writing([@ EXCEPT !.code = code, !.message = message],
                                        writes, "answer")]
                  /\ UNCHANGED resp
          IN  CASE res.kind = "ok" -> begins(AnalyzeDoneWrites(res.props), 200, None)
                [] res.kind = "PipelineError" -> begins(AnalyzeFailWrites(res.msg), 500, res.msg)
                [] OTHER ->
                     /\ resp' = Response(i, "analyze", j, 500, "Internal Server Error", NoBody)
                     /\ anz' = Remove(anz, i)
                     /\ UNCHANGED jobs
    /\ UNCHANGED <<disk, queue, running, nsub, nreq>>

FineUpload == Cardinality(DOMAIN jobs) < FineJobs /\ Upload

FineGenerate(j) == nsub < FineTasks /\ Generate(j)

FineNext ==
    \/ FineUpload
    \/ \E j \in JobIds : FineAnalyzeBegin(j)
    \/ \E i \in ReqIds : AnalyzeWrite(i)
    \/ \E i \in ReqIds : AnalyzeSave(i)
    \/ \E i \in ReqIds : FineAnalyzeCall(i)
    \/ \E j \in JobIds, p \in PropertyInputs : UpdateProperties(j, p)
    \/ \E j \in JobIds : FineGenerate(j)
    \/ \E j \in JobIds : Status(j)
    \/ WorkerStart
    \/ \E t \in TaskIds : FineBegin(t)
    \/ \E t \in TaskIds : TaskWrite(t)
    \/ \E t \in TaskIds : TaskSave(t)
    \/ \E t \in TaskIds : GenCheck(t)
    \/ \E t \in TaskIds : GenClean(t)
    \/ \E t \in TaskIds : GenMesh(t)
    \/ \E t \in TaskIds : GenRender(t)
    \/ \E t \in TaskIds : FineFinish(t)
    \/ \E t \in TaskIds : TaskReturn(t)

FineSpec == Init /\ [][FineNext]_vars

\* ------------------------------------------------ save_job step by step

\* save_job holds no lock either.  open(job.json, "w") empties the file,
\* json.dump encodes the record into the handle's buffer, and leaving the with
\* block writes the buffer through the handle, whose offset is 0.  SaveSpec
\* follows the last save_job of background() in these two steps and keeps every
\* other save as one step, so it too can refute a claim and cannot confirm one.

\* job.json just opened for writing.
EmptyFile == [bytes |-> "none"]

\* job.json after a shorter text was written over the start of a longer one.
Garbled == [bytes |-> "mixed"]

\* What job.json can hold once `buf` is written from offset 0 over `file`:
\* `buf`, and when another handle wrote a different text since the file was
\* opened, `buf` followed by what is left of that text if it was longer.
Overwritten(buf, file) == IF file \in {EmptyFile, buf} THEN {buf} ELSE {buf, Garbled}

\* Lines 221-226 up to json.dump: the job is marked complete, job.json is
\* opened and the record is encoded.
FinishDump(t) ==
    /\ t \in DOMAIN running
    /\ Frame(t).pc = "finish"
    /\ LET job == CompleteGeneration(jobs[Frame(t).job])
       IN  /\ jobs' = Store(jobs, Frame(t).job, job)
           /\ disk' = Store(disk, Frame(t).job, EmptyFile)
           /\ running' = [running EXCEPT ![t] = [buf |-> job] @@ [@ EXCEPT !.pc = "close"]]
    /\ UNCHANGED <<queue, nsub, anz, nreq, resp>>

\* The with block of save_job is left: the buffer is written, and background()
\* returns.
FinishClose(t) ==
    /\ t \in DOMAIN running
    /\ Frame(t).pc = "close"
    /\ \E file \in Overwritten(Frame(t).buf, disk[Frame(t).job]) :
          disk' = Store(disk, Frame(t).job, file)
    /\ TaskEnds(t, [k \in (DOMAIN Frame(t)) \ {"buf"} |-> Frame(t)[k]], None)
    /\ UNCHANGED <<jobs, queue, nsub, anz, nreq, resp>>

SaveNext ==
    \/ Upload
    \/ \E j \in JobIds, p \in PropertyInputs : UpdateProperties(j, p)
    \/ \E j \in JobIds : Generate(j)
    \/ WorkerStart
    \/ \E t \in TaskIds : GenBegin(t)
    \/ \E t \in TaskIds : GenCheck(t)
    \/ \E t \in TaskIds : GenClean(t)
    \/ \E t \in TaskIds : GenMesh(t)
    \/ \E t \in TaskIds : GenRender(t)
    \/ \E t \in TaskIds : FinishDump(t)
    \/ \E t \in TaskIds : FinishClose(t)
    \/ \E t \in TaskIds : TaskReturn(t)

SaveSpec == Init /\ [][SaveNext]_vars

\* ------------------------------------------------------------ claims

\* The tasks of job j that are queued or executing.
Executions(j) ==
    Cardinality({i \in 1..Len(queue) : queue[i].job = j})
    + Cardinality({t \in DOMAIN running : running[t].job = j /\ running[t].pc # "done"})

Started(t) == t <= nsub /\ \A i \in 1..Len(queue) : queue[i].id # t
Finished(t) == Started(t) /\ t \notin DOMAIN running

\* C1: at most one generation task is executing at any instant, whatever
\* generate() calls were made on whatever jobs.
C1_OneTaskAtATime == Cardinality(DOMAIN running) <= 1

\* A task is executing while the task of another job waits in the queue.
C1_Witness ==
    /\ Cardinality(DOMAIN running) = 1
    /\ queue # <<>>
    /\ \E t \in DOMAIN running : running[t].pc \notin {"begin", "done"}
                                 /\ running[t].job # queue[1].job

\* C2: tasks start in submission order: when a task has started, every task
\* submitted before it has finished.
C2_Fifo ==
    \A x \in 1..nsub, y \in 1..nsub : (x < y /\ Started(y)) => Finished(x)

\* The second task submitted, for job 2, is executing after the task of job 1
\* has run to its end.
C2_Witness ==
    /\ 2 \in DOMAIN running
    /\ running[2].job = 2
    /\ running[2].pc = "check"
    /\ 1 \in DOMAIN jobs
    /\ jobs[1].status = "error"

\* C3: while a job's status is not error, its progress never decreases from
\* one state to the next.
C3_ProgressNonDecreasing ==
    [][\A j \in DOMAIN jobs :
          (jobs[j].status # "error" /\ jobs'[j].status # "error")
              => jobs'[j].progress >= jobs[j].progress]_vars

StageStatuses(job) == [k \in DOMAIN job.stages |-> job.stages[k].status]

\* C4: once a job's status is complete or error, no step changes its status or
\* the state of any of its stages.
C4_Terminal ==
    [][\A j \in DOMAIN jobs :
          jobs[j].status \in {"complete", "error"}
              => /\ jobs'[j].status = jobs[j].status
                 /\ StageStatuses(jobs'[j]) = StageStatuses(jobs[j])]_vars

StatusTransitions ==
    { <<"uploaded", "analyzing">>,
      <<"analyzing", "analysis_complete">>,
      <<"analysis_complete", "generating">>,
      <<"generating", "complete">>,
      <<"analyzing", "error">>,
      <<"generating", "error">> }

\* C5: every change of a job's status is a transition of the state machine
\* uploaded -> analyzing -> analysis_complete -> generating -> complete, with
\* error entered only from analyzing or generating.
C5_StatusMachine ==
    [][\A j \in DOMAIN jobs :
          jobs'[j].status # jobs[j].status
              => <<jobs[j].status, jobs'[j].status>> \in StatusTransitions]_vars

\* The step is the request handler `op` answering a request for job j.
Answers(op, j) == resp'.id # resp.id /\ resp'.op = op /\ resp'.job = j

\* The step is the GET handler `op` answering a poll of job j.
Polled(op, j) == resp' # resp /\ resp'.id = 0 /\ resp'.op = op /\ resp'.job = j

\* C6: generate() on a job whose status is generating submits no task, changes
\* no field of the job, answers with the job as it is and without the
\* "Generation started" message, and leaves exactly one queued or executing
\* task for the job.
C6_GenerateNoOp ==
    [][\A j \in DOMAIN jobs :
          (Answers("generate", j) /\ jobs[j].status = "generating")
              => /\ UNCHANGED <<jobs, disk, queue, running, nsub>>
                 /\ resp'.body = serialize_job(jobs[j])
                 /\ resp'.message = None
                 /\ Executions(j)' = 1]_vars

\* The step in which task t reads the properties of its job (lines 206-212).
ReadsProperties(t) ==
    /\ t \in DOMAIN running
    /\ running[t].pc = "check"
    /\ running'[t].pc # "check"

\* C7: when the properties map has fewer than two populated entries as the
\* generation task reads it, the task ends there with status error and stage
\* generation failed for missing properties, having invoked no tool.
C7_MissingPropertiesFail ==
    [][\A t \in TaskIds :
          (ReadsProperties(t)
           /\ Cardinality(Populated(jobs[running[t].job].properties)) < 2)
              => /\ running'[t].pc = "done"
                 /\ running'[t].calls = <<>>
                 /\ jobs'[running[t].job].status = "error"
                 /\ jobs'[running[t].job].stages.generation
                        = stage("failed", MsgMissingProps)]_vars

\* C8: a task that has invoked an external tool read, at its start, a
\* PropertyBag for entity A and one for entity B.
C8_ToolsNeedBothBags ==
    \A t \in DOMAIN running :
        running[t].calls # <<>>
            => \A k \in {"objectA", "objectB"} :
                   k \in DOMAIN running[t].props /\ running[t].props[k] # NoProps

DefaultBag == [mass |-> 10, bounciness |-> 5, friction |-> 5, facing |-> "front"]

\* In the analyze() call that answers in this step the analyzer raised, or
\* returned output that could not be parsed, for entity k.
AnalyzerFailedFor(k) ==
    \E n \in 1..Len(resp'.calls) :
        resp'.calls[n].ent = k /\ resp'.calls[n].out \in {"fallback", "badvalue"}

\* C9: when the analyzer raises or returns unparsable output for an entity
\* (and both images are there), analyze() leaves that entity with the default
\* properties, leaves job.error null and the job in analysis_complete.
C9_AnalyzerFallback ==
    [][\A j \in DOMAIN jobs, k \in {"objectA", "objectB"} :
          (Answers("analyze", j) /\ AnalyzerFailedFor(k)
           /\ resp'.message # MsgImageNotFound)
              => /\ k \in DOMAIN jobs'[j].properties
                 /\ jobs'[j].properties[k] = DefaultBag
                 /\ jobs[j].error = None => jobs'[j].error = None
                 /\ jobs'[j].status = "analysis_complete"]_vars

Last(seq) == seq[Len(seq)]

\* Task t's mesh-generation call reported success in this step and mesh.obj
\* is not there.
MeshMissing(t) ==
    /\ t \in DOMAIN running
    /\ running[t].pc = "mesh"
    /\ Len(running'[t].calls) = Len(running[t].calls) + 1
    /\ Last(running'[t].calls).tool = "mesh"
    /\ Last(running'[t].calls).out = "missing"

\* C10: when mesh.obj is absent after a mesh-generation call that reported
\* success, the task ends there: status error, stages generation and render
\* failed, video_path as it was (null when it was null), no render call.
C10_MeshMissingFails ==
    [][\A t \in TaskIds :
          MeshMissing(t)
              => LET j == running[t].job
                 IN  /\ running'[t].pc = "done"
                     /\ jobs'[j].status = "error"
                     /\ jobs'[j].stages.generation.status = "failed"
                     /\ jobs'[j].stages.render.status = "failed"
                     /\ jobs'[j].video_path = jobs[j].video_path
                     /\ jobs[j].video_path = None => jobs'[j].video_path = None
                     /\ \A n \in 1..Len(running'[t].calls) :
                            running'[t].calls[n].tool # "render"]_vars

\* A task has ended on a missing mesh of entity B, and its job has no video.
C10_Witness ==
    \E t \in DOMAIN running :
        /\ running[t].pc = "done"
        /\ running[t].calls # <<>>
        /\ Last(running[t].calls) = [tool |-> "mesh", ent |-> "objectB", out |-> "missing"]
        /\ jobs[running[t].job].status = "error"
        /\ jobs[running[t].job].error = MsgMeshNotFound
        /\ jobs[running[t].job].video_path = None

\* C11: the video endpoint serves a job's video only while the job's status is
\* complete.
C11_VideoOnlyWhenComplete ==
    [][\A j \in DOMAIN jobs :
          (Polled("video", j) /\ resp'.code = 200) => jobs[j].status = "complete"]_vars

\* C12: a status poll that observes status complete observes a video path and
\* progress 100.
C12_CompleteHasVideo ==
    (resp.op = "status" /\ resp.code = 200 /\ resp.body.status = "complete")
        => (resp.body.video_path # None /\ resp.body.progress = 100)

\* The fields of a job that callers see.
Contract(job) ==
    [status |-> job.status, progress |-> job.progress, stages |-> job.stages,
     properties |-> job.properties, video_path |-> job.video_path, error |-> job.error]

\* The step belongs to an operation on job x: a handler answers a request for
\* x, analyze() is entered for x, or a task of x starts, moves or returns.
OperatesOn(x) ==
    \/ resp'.id # resp.id /\ resp'.job = x
    \/ \E i \in (DOMAIN anz') \ (DOMAIN anz) : anz'[i].job = x
    \/ \E t \in DOMAIN running' :
          running'[t].job = x /\ (t \notin DOMAIN running \/ running'[t] # running[t])
    \/ \E t \in (DOMAIN running) \ (DOMAIN running') : running[t].job = x

\* No job but x changes in an operation on x, and no job changes in a step
\* that is not an operation on it.
OnlyItsJob ==
    /\ \A x \in JobIds :
          OperatesOn(x)
              => \A y \in (DOMAIN jobs) \ {x} : Contract(jobs'[y]) = Contract(jobs[y])
    /\ \A z \in DOMAIN jobs :
          Contract(jobs'[z]) # Contract(jobs[z]) => OperatesOn(z)

\* C13: an operation on job x (analyze, update_properties, generate, a step
\* of its generation task, failing or not) leaves status, progress, stages,
\* properties, video_path and error of every other job as they were.
C13_OtherJobsUntouched == [][OnlyItsJob]_vars

\* The generation task of job 1 has failed while job 2 is as it was created.
C13_Witness ==
    /\ 2 \in DOMAIN jobs
    /\ jobs[1].status = "error"
    /\ jobs[1].stages.generation.status = "failed"
    /\ jobs[2] = NewJob(2)

\* All of id, status, progress, the four stages, properties, video_path and
\* error are set in the record filed under j.
FullyConstructed(j, job) ==
    /\ {"id", "status", "progress", "stages", "properties", "video_path", "error"}
           \subseteq DOMAIN job
    /\ job.id = j
    /\ DOMAIN job.stages = {"upload", "analysis", "generation", "render"}

\* A handler that looks a job up answers, in this step, a request for a job
\* id that names no job.
AnswersUnknown(j) ==
    /\ j \notin DOMAIN jobs
    /\ \/ \E op \in {"analyze", "properties", "generate"} : Answers(op, j)
       \/ \E op \in {"status", "video"} : Polled(op, j)

UnknownIsNotFound ==
    /\ \A j \in JobIds :
          AnswersUnknown(j)
              => /\ resp'.code = 404
                 /\ resp'.message = "Job not found"
                 /\ UNCHANGED <<jobs, disk, queue, running, nsub, anz>>
    /\ \A j \in DOMAIN jobs' : FullyConstructed(j, jobs'[j])

\* C14: analyze, update_properties, generate, status and video on a job id
\* that names no job answer NotFound, change no job and schedule no task; and
\* every record get_job can return is fully constructed.
C14_UnknownJob == [][UnknownIsNotFound]_vars

\* generate() has answered NotFound for an id that names no job, with one job
\* created and no task scheduled.
C14_Witness ==
    /\ resp.op = "generate"
    /\ resp.code = 404
    /\ resp.job \notin DOMAIN jobs
    /\ DOMAIN jobs = {1}
    /\ nsub = 0
    /\ queue = <<>>

\* Task t ends in this step otherwise than by returning from its last line:
\* an exception was raised inside it.
EndsByException(t) ==
    /\ t \in DOMAIN running
    /\ running[t].pc \notin {"done", "finish"}
    /\ running'[t].pc = "done"
    /\ running[t].job \in DOMAIN jobs

\* C15: an exception raised inside a generation task, PipelineError or not,
\* becomes the job's terminal error: as the task ends the job has status
\* error and job.error set, and is not left in status generating.
C15_ExceptionsBecomeErrors ==
    [][\A t \in TaskIds :
          EndsByException(t)
              => /\ jobs'[running[t].job].status = "error"
                 /\ jobs'[running[t].job].error # None]_vars

\* C16: every generation task submitted to the executor starts and finishes,
\* whatever happened to the tasks before it.
C16_TasksFinish == \A t \in TaskIds : (t <= nsub) ~> Finished(t)

\* The second task submitted has finished, and a job was left in status
\* generating by a task that ended on an exception.
C16_Witness ==
    /\ Finished(2)
    /\ \E j \in DOMAIN jobs : jobs[j].status = "generating" /\ Executions(j) = 0

\* The PipelineErrors that can be raised at each position of a task.
GenErrors(pc) ==
    CASE pc = "check"  -> {MsgMissingProps, MsgOriginalMissing}
      [] pc = "clean"  -> {MsgRembgFailed}
      [] pc = "mesh"   -> {MsgTripoFailed, MsgMeshNotFound, MsgOriginalMissing}
      [] pc = "render" -> {MsgBlenderFailed, MsgRenderMissing}
      [] OTHER         -> {}

\* A PipelineError raised inside task t reaches the except block in this step.
PipelineFailure(t) == EndsByException(t) /\ running'[t].exc = None

\* analyze() answers, in this step, with the PipelineError of its analysis.
AnalysisFailure(j) ==
    Answers("analyze", j) /\ resp'.code = 500 /\ resp'.message = MsgImageNotFound

FatalErrorsRecorded ==
    /\ \A j \in DOMAIN jobs :
          AnalysisFailure(j)
              => /\ jobs'[j].status = "error"
                 /\ jobs'[j].error = MsgImageNotFound
                 /\ jobs'[j].stages.analysis = stage("failed", MsgImageNotFound)
    /\ \A t \in TaskIds :
          PipelineFailure(t)
              => LET job == jobs'[running[t].job]
                 IN  /\ job.status = "error"
                     /\ job.error \in GenErrors(running[t].pc)
                     /\ job.stages.generation = stage("failed", job.error)
                     /\ job.stages.render = stage("failed", job.error)

\* C17: a PipelineError raised in analysis or in the generation task sets
\* status error, job.error to its message, and marks the stages of that
\* phase (analysis; or generation and render) failed with the same message.
C17_FatalErrorsRecorded == [][FatalErrorsRecorded]_vars

\* Job 1 has failed in analysis and job 2 in its generation task.
C17_Witness ==
    /\ 2 \in DOMAIN jobs
    /\ jobs[1].status = "error"
    /\ jobs[1].error = MsgImageNotFound
    /\ jobs[1].stages.analysis = stage("failed", MsgImageNotFound)
    /\ jobs[2].status = "error"
    /\ jobs[2].error = MsgMissingProps
    /\ jobs[2].stages.generation = stage("failed", MsgMissingProps)
    /\ jobs[2].stages.render = stage("failed", MsgMissingProps)

StageTransitions ==
    { <<"pending", "running">>, <<"running", "completed">>, <<"running", "failed">> }

\* C18: every change of a stage's status is pending -> running,
\* running -> completed or running -> failed.
C18_StageMachine ==
    [][\A j \in DOMAIN jobs : \A k \in DOMAIN jobs[j].stages :
          jobs'[j].stages[k].status # jobs[j].stages[k].status
              => <<jobs[j].stages[k].status, jobs'[j].stages[k].status>>
                     \in StageTransitions]_vars

StageNames == {"upload", "analysis", "generation", "render"}

StagesWellFormed(job) ==
    /\ DOMAIN job.stages = StageNames
    /\ \A k \in StageNames :
          job.stages[k].status \in {"pending", "running", "completed", "failed"}
    /\ job.stages.upload.status = "completed"

\* The stages of a job as create_job leaves them.
StagesAtCreation(job) ==
    StageStatuses(job) = [upload |-> "completed", analysis |-> "pending",
                          generation |-> "pending", render |-> "pending"]

\* After the step every job has its four stages, each in one of the four
\* states, with upload completed; a job created by the step has the other
\* three pending.
StagesKept ==
    /\ \A j \in DOMAIN jobs' : StagesWellFormed(jobs'[j])
    /\ \A j \in (DOMAIN jobs') \ (DOMAIN jobs) : StagesAtCreation(jobs'[j])

\* C19: each job's stages map has exactly the keys upload, analysis,
\* generation and render, each with a status among pending, running,
\* completed and failed; at creation upload is completed and the others are
\* pending; upload stays completed.
C19_StageSet == [][StagesKept]_vars

\* A job whose analysis, generation and render stages have all run to
\* completed.
C19_Witness ==
    \E j \in DOMAIN jobs :
        StageStatuses(jobs[j]) = [upload |-> "completed", analysis |-> "completed",
                                  generation |-> "completed", render |-> "completed"]

\* The tasks, and the analyze() threads, that have made some and not all of
\* the assignments of an update of job j.
TaskWriters(j) ==
    {t \in DOMAIN running :
        running[t].job = j /\ running[t].pc = "write" /\ running[t].todo # <<>>}

AnalyzeWriters(j) ==
    {i \in DOMAIN anz : anz[i].job = j /\ anz[i].pc = "write" /\ anz[i].todo # <<>>}

\* C20: the reads and writes of one job's record are serialized: no two
\* threads are inside an update of the same job at once, and no status poll
\* reads the job while a thread is inside an update of it.
C20_Serialized ==
    [][\A j \in DOMAIN jobs :
          /\ Cardinality(TaskWriters(j)) + Cardinality(AnalyzeWriters(j)) <= 1
          /\ Polled("status", j) => (TaskWriters(j) = {} /\ AnalyzeWriters(j) = {})]_vars

\* C21: whatever generate() calls are made on a job, and whenever (also
\* before the worker has started the first task), there are never two
\* generation tasks of the same job queued or executing together.
C21_OneTaskPerJob == \A j \in DOMAIN jobs : Executions(j) <= 1

\* A request handler or a generation task is in the middle of operating on
\* job j.
Operating(j) ==
    \/ \E t \in DOMAIN running : running[t].job = j /\ running[t].pc # "done"
    \/ \E i \in DOMAIN anz : anz[i].job = j

\* job.json holds a snapshot.
Readable(file) == "status" \in DOMAIN file

\* C22: persist follows every mutation: whenever no request handler and no
\* generation task is in the middle of operating on a job, the job's persisted
\* snapshot equals its record in memory in status, progress, stages,
\* properties, video path and error.
C22_PersistFollowsMutation ==
    \A j \in DOMAIN jobs :
        ~Operating(j) => (Readable(disk[j]) /\ Contract(disk[j]) = Contract(jobs[j]))

\* The tool calls of a task that runs to its end, in order.
ToolOrder ==
    << [tool |-> "clean", ent |-> "objectA"], [tool |-> "mesh", ent |-> "objectA"],
       [tool |-> "clean", ent |-> "objectB"], [tool |-> "mesh", ent |-> "objectB"],
       [tool |-> "render", ent |-> "both"] >>

\* The calls a task has made are the first of ToolOrder, and each call but
\* the last one succeeded.
ToolsInOrder(fr) ==
    /\ Len(fr.calls) <= Len(ToolOrder)
    /\ \A n \in 1..Len(fr.calls) :
          /\ fr.calls[n].tool = ToolOrder[n].tool
          /\ fr.calls[n].ent = ToolOrder[n].ent
          /\ n < Len(fr.calls) => fr.calls[n].out = "ok"

\* The step is a cleanup call of task t that failed.
CleanupFails(t) ==
    /\ t \in DOMAIN running /\ t \in DOMAIN running'
    /\ Len(running'[t].calls) = Len(running[t].calls) + 1
    /\ Last(running'[t].calls).tool = "clean"
    /\ Last(running'[t].calls).out # "ok"

CleanupThenMeshThenRender ==
    /\ \A t \in DOMAIN running' : ToolsInOrder(running'[t])
    /\ \A t \in TaskIds :
          CleanupFails(t) =>
              /\ running'[t].pc = "done"
              /\ jobs'[running[t].job].status = "error"
              /\ jobs'[running[t].job].error # None

\* C23: in the generation task cleanup comes before mesh generation for each
\* entity, entity A is fully processed before entity B, and the renderer runs
\* only after both meshes were produced; when cleanup fails for an entity the
\* task makes no further tool call and the job ends with status error.
C23_CleanupFatalAndOrdered == [][CleanupThenMeshThenRender]_vars

\* A task processed entity A, failed in the cleanup of entity B and has ended.
C23_Witness ==
    \E t \in DOMAIN running :
        /\ running[t].pc = "done"
        /\ Len(running[t].calls) = 3
        /\ running[t].calls[3] = [tool |-> "clean", ent |-> "objectB", out |-> "fail"]
        /\ jobs[running[t].job].status = "error"

\* The step is the return of analyze_objects in request i, after the analyzer
\* was called for an entity at least.
AnalysisReturns(i) ==
    /\ i \in DOMAIN anz
    /\ i \notin DOMAIN anz'
    /\ resp'.id = i
    /\ resp'.calls # <<>>

\* C24: during the analysis phase the job's progress is updated as the
\* entities are analysed, to values within 20..50: when analyze_objects
\* returns for a job that is still analyzing, having analysed an entity, the
\* progress it finds on the job is such a value, above the creation value.
C24_AnalysisProgress ==
    [][\A i \in ReqIds :
          (AnalysisReturns(i) /\ jobs[anz[i].job].status = "analyzing")
              => jobs[anz[i].job].progress \in 20..50]_vars

\* The step is update_properties answering for the existing job j.
PropertiesUpdated(j) ==
    /\ resp'.id # resp.id
    /\ resp'.op = "properties"
    /\ resp'.job = j
    /\ resp'.code = 200

OnlyPropertiesReplaced ==
    \A j \in DOMAIN jobs :
        PropertiesUpdated(j) =>
            /\ jobs'[j].properties \in PropertyInputs
            /\ jobs'[j] = [jobs[j] EXCEPT !.properties = jobs'[j].properties]
            /\ resp'.body.properties = jobs'[j].properties
            /\ queue' = queue /\ nsub' = nsub /\ running' = running

\* C25: update_properties on an existing job replaces the job's properties
\* map by the supplied map, leaves the job's status, progress, stages, video
\* path and error as they are, and schedules no task, whatever the job's
\* status.
C25_UpdatePropertiesFrame == [][OnlyPropertiesReplaced]_vars

\* update_properties has answered for a job whose generation task is running,
\* and for a job that had another map before.
C25_Witness ==
    /\ resp.op = "properties" /\ resp.code = 200
    /\ jobs[resp.job].status = "generating"
    /\ jobs[resp.job].properties = resp.body.properties
    /\ jobs[resp.job].properties # [objectA |-> NoProps, objectB |-> NoProps]
    /\ \E t \in DOMAIN running :
          /\ running[t].job = resp.job
          /\ running[t].pc \in {"clean", "mesh", "render"}
          /\ running[t].props # BuildProps(jobs[resp.job].properties)

\* C26: in every reachable state of every job, the job's error is set if and
\* only if the job's status is error.
C26_ErrorIffStatusError ==
    \A j \in DOMAIN jobs : (jobs[j].error # None) <=> (jobs[j].status = "error")

====
